---- MODULE Spec2Model ----
(***************************************************************************)
(* Model of call_stats.py: the call_stats decorator class, which counts    *)
(* and times the invocations of a wrapped function, keeps the durations in *)
(* a bounded deque, and reports per wrapper and for the whole registry.    *)
(*                                                                         *)
(* Numbers produced by numpy (sum, mean, std) are modelled as records      *)
(* [nan, num, den]: the rational num/den, or not-a-number when nan holds.  *)
(* The standard deviation is carried as its square (the variance), which   *)
(* is zero / nan exactly when the standard deviation is.                   *)
(***************************************************************************)
EXTENDS Integers, Sequences, FiniteSets, TLC

\* ---- bound of the model: the number of constructions, calls and resizes in a run ----
MaxOps == 5

\* ---- bound of SpecFib: the largest argument of the top-level call of fib ----
MaxFib == 10

\* ---- program constant: the default history length (__init__, line 63) ----
DefaultHist == 1000

\* ---- inputs ----
\* the underlying callables: two distinct functions
Funcs == {1, 2}
\* the values of n_call_stat_hist a resize asks for
Capacities == {0, 1}
\* the values time() returns
Times == {0, 1}
\* the values assigned to the call_stats property
AssignedValues == {0}
\* the history lengths fib is given before it is called: the default and a short one
FibCapacities == {DefaultHist, 100}
\* the threads that call the same wrapper at the same time
Threads == {1, 2}
\* the argument lists a caller passes
Args == {0, 1}
\* the values an underlying function returns
Results == {0, 1}
\* the exceptions an underlying function raises
Faults == {"E1", "E2"}

VARIABLES
    func,               \* func[w]: self._func, the underlying function of wrapper w
    call_count,         \* call_count[w]: self._call_count
    n_call_stat_hist,   \* n_call_stat_hist[w]: self._n_call_stat_hist
    call_hist,          \* call_hist[w]: self._call_hist, a deque [maxlen, items]
    instances,          \* call_stats._instances: dict, as a sequence of [key, deco] in insertion order
    stack,              \* invocations of __call__ in flight, innermost last: frames
                        \*   [w, t1, args (given by the caller), passed (given to self._func),
                        \*    calls (times self._func was called)]
    fib_frames,         \* the frames of the example function fib in flight, one per frame of
                        \*   stack: [n, pc, acc]; empty when the wrapped functions are arbitrary
    threads,            \* threads[t]: a thread inside __call__ at bytecode granularity:
                        \*   [pc, w, t1, dur, reg, raced]; empty when only one thread runs
    inner,              \* what the underlying function did in the call that just ended: the
                        \*   arguments it got, how often it was called, what it returned or raised
    clock,              \* the last value returned by time()
    ops,                \* number of constructions, calls and resizes started so far
    returned,           \* returned[w]: the durations of the invocations of w that returned since
                        \*   its construction or last resize, in order of returning
    ended,              \* ended[w]: number of invocations of w that ended (returned or raised)
                        \*   since its construction or last resize
    lifetime,           \* lifetime[w]: number of invocations of w that ended since construction
    out                 \* what the last operation showed its caller: value, printed lines, error

vars == <<func, call_count, n_call_stat_hist, call_hist, instances, stack, fib_frames, threads,
          inner, clock, ops, returned, ended, lifetime, out>>

Wrappers == 1..Len(func)

\* ---- numbers ----
Num(n) == [nan |-> FALSE, num |-> n, den |-> 1]

Frac(n, d) == [nan |-> FALSE, num |-> n, den |-> d]

NaN == [nan |-> TRUE, num |-> 0, den |-> 0]

IsZero(x) == ~x.nan /\ x.num = 0

RECURSIVE SeqSum(_)
SeqSum(s) == IF s = <<>> THEN 0 ELSE s[1] + SeqSum(Tail(s))

RECURSIVE SeqSumSq(_)
SeqSumSq(s) == IF s = <<>> THEN 0 ELSE s[1] * s[1] + SeqSumSq(Tail(s))

\* np.sum of a sequence: 0.0 for the empty one
np_sum(s) == Num(SeqSum(s))

\* np.mean of a sequence: sum / len, nan (with a warning, no exception) for the empty one
np_mean(s) == IF Len(s) = 0 THEN NaN ELSE Frac(SeqSum(s), Len(s))

\* np.std of a sequence (as its square): mean of squared deviations, nan for the empty one
np_std(s) ==
    IF Len(s) = 0 THEN NaN
    ELSE Frac(Len(s) * SeqSumSq(s) - SeqSum(s) * SeqSum(s), Len(s) * Len(s))

\* ---- collections.deque with maxlen ----
deque(maxlen) == [maxlen |-> maxlen, items |-> <<>>]

\* a deque that never evicts
deque_append_unbounded(q, x) == [q EXCEPT !.items = Append(q.items, x)]

deque_append(q, x) ==
    IF q.maxlen = 0 THEN q
    ELSE IF Len(q.items) >= q.maxlen
         THEN [q EXCEPT !.items = Append(Tail(q.items), x)]
         ELSE [q EXCEPT !.items = Append(q.items, x)]

\* an assignment that moves an existing key to the end
dict_set_moving(d, k, v) ==
    LET keep == SelectSeq(d, LAMBDA e : e.key # k)
    IN Append(keep, [key |-> k, deco |-> v])

\* ---- dict assignment d[k] = v: an existing key keeps its position ----
dict_set(d, k, v) ==
    IF \E i \in 1..Len(d) : d[i].key = k
    THEN [i \in 1..Len(d) |-> IF d[i].key = k THEN [key |-> k, deco |-> v] ELSE d[i]]
    ELSE Append(d, [key |-> k, deco |-> v])

Registered == {instances[i].deco : i \in 1..Len(instances)}

\* ---- what an operation shows ----
Shown(op, w, arg, error, value, lines) ==
    [op |-> op, w |-> w, arg |-> arg, error |-> error, value |-> value, lines |-> lines]

\* no call has just ended
NoInner == [op |-> "none", w |-> 0, args |-> 0, calls |-> 0, result |-> 0]

Init ==
    /\ func = <<>>
    /\ call_count = <<>>
    /\ n_call_stat_hist = <<>>
    /\ call_hist = <<>>
    /\ instances = <<>>
    /\ stack = <<>>
    /\ fib_frames = <<>>
    /\ threads = <<>>
    /\ inner = NoInner
    /\ clock = 0
    /\ ops = 0
    /\ returned = <<>>
    /\ ended = <<>>
    /\ lifetime = <<>>
    /\ out = Shown("init", 0, 0, "none", <<>>, <<>>)

\* a constructor that forgets to register the wrapper
Wrap_unregistered(f) ==
    /\ func' = Append(func, f)
    /\ call_count' = Append(call_count, 0)
    /\ n_call_stat_hist' = Append(n_call_stat_hist, DefaultHist)
    /\ call_hist' = Append(call_hist, deque(DefaultHist))
    /\ returned' = Append(returned, <<>>)
    /\ ended' = Append(ended, 0)
    /\ lifetime' = Append(lifetime, 0)
    /\ ops' = ops + 1
    /\ out' = Shown("wrap", Len(func) + 1, f, "none", <<>>, <<>>)
    /\ inner' = NoInner
    /\ UNCHANGED <<instances, stack, clock>>

\* ---- call_stats.__init__(func) ----
Wrap(f) ==
    /\ func' = Append(func, f)
    /\ call_count' = Append(call_count, 0)
    /\ n_call_stat_hist' = Append(n_call_stat_hist, DefaultHist)
    /\ call_hist' = Append(call_hist, deque(DefaultHist))
    /\ instances' = dict_set(instances, f, Len(func) + 1)
    /\ returned' = Append(returned, <<>>)
    /\ ended' = Append(ended, 0)
    /\ lifetime' = Append(lifetime, 0)
    /\ ops' = ops + 1
    /\ out' = Shown("wrap", Len(func) + 1, f, "none", <<>>, <<>>)
    /\ inner' = NoInner
    /\ UNCHANGED <<stack, clock>>

\* ---- call_stats.__call__: t1 = time(), then the underlying function starts ----
Invoke(w, t1, args) ==
    /\ t1 >= clock
    /\ clock' = t1
    /\ stack' = Append(stack, [w |-> w, t1 |-> t1, args |-> args, passed |-> args, calls |-> 1])
    /\ ops' = ops + 1
    /\ out' = Shown("call", w, args, "none", <<>>, <<>>)
    /\ inner' = NoInner
    /\ UNCHANGED <<func, call_count, n_call_stat_hist, call_hist, instances, returned, ended,
                   lifetime>>

\* a __call__ that catches the exception and returns nothing
Fault_swallowed(e) ==
    /\ stack # <<>>
    /\ LET fr == stack[Len(stack)]
           w == fr.w
       IN   /\ ended' = [ended EXCEPT ![w] = @ + 1]
            /\ lifetime' = [lifetime EXCEPT ![w] = @ + 1]
            /\ inner' = [op |-> "raised", w |-> w, args |-> fr.passed, calls |-> fr.calls,
                         result |-> e]
            /\ out' = Shown("return", w, fr.args, "none", <<0>>, <<>>)
    /\ stack' = SubSeq(stack, 1, Len(stack) - 1)
    /\ UNCHANGED <<func, call_count, n_call_stat_hist, call_hist, instances, clock, ops, returned>>

\* a __call__ that counts only the outermost invocation
Return_outermost(t2, r) ==
    /\ stack # <<>>
    /\ t2 >= clock
    /\ LET fr == stack[Len(stack)]
           w == fr.w
       IN   /\ clock' = t2
            /\ call_hist' = [call_hist EXCEPT ![w] = deque_append(@, t2 - fr.t1)]
            /\ call_count' = [call_count EXCEPT ![w] = IF Len(stack) = 1 THEN @ + 1 ELSE @]
            /\ returned' = [returned EXCEPT ![w] = Append(@, t2 - fr.t1)]
            /\ ended' = [ended EXCEPT ![w] = @ + 1]
            /\ lifetime' = [lifetime EXCEPT ![w] = @ + 1]
            /\ inner' = [op |-> "returned", w |-> w, args |-> fr.passed, calls |-> fr.calls,
                         result |-> r]
            /\ out' = Shown("return", w, fr.args, "none", <<r>>, <<>>)
    /\ stack' = SubSeq(stack, 1, Len(stack) - 1)
    /\ UNCHANGED <<func, n_call_stat_hist, instances, ops>>

\* a __call__ that records the duration but forgets to count
Return_uncounted(t2, r) ==
    /\ stack # <<>>
    /\ t2 >= clock
    /\ LET fr == stack[Len(stack)]
           w == fr.w
       IN   /\ clock' = t2
            /\ call_hist' = [call_hist EXCEPT ![w] = deque_append(@, t2 - fr.t1)]
            /\ returned' = [returned EXCEPT ![w] = Append(@, t2 - fr.t1)]
            /\ ended' = [ended EXCEPT ![w] = @ + 1]
            /\ lifetime' = [lifetime EXCEPT ![w] = @ + 1]
            /\ inner' = [op |-> "returned", w |-> w, args |-> fr.passed, calls |-> fr.calls,
                         result |-> r]
            /\ out' = Shown("return", w, fr.args, "none", <<r>>, <<>>)
    /\ stack' = SubSeq(stack, 1, Len(stack) - 1)
    /\ UNCHANGED <<func, call_count, n_call_stat_hist, instances, ops>>

\* ---- call_stats.__call__: the underlying function returned; t2, append, count, return ----
Return(t2, r) ==
    /\ stack # <<>>
    /\ t2 >= clock
    /\ LET fr == stack[Len(stack)]
           w == fr.w
       IN   /\ clock' = t2
            /\ call_hist' = [call_hist EXCEPT ![w] = deque_append(@, t2 - fr.t1)]
            /\ call_count' = [call_count EXCEPT ![w] = @ + 1]
            /\ returned' = [returned EXCEPT ![w] = Append(@, t2 - fr.t1)]
            /\ ended' = [ended EXCEPT ![w] = @ + 1]
            /\ lifetime' = [lifetime EXCEPT ![w] = @ + 1]
            /\ inner' = [op |-> "returned", w |-> w, args |-> fr.passed, calls |-> fr.calls,
                         result |-> r]
            /\ out' = Shown("return", w, fr.args, "none", <<r>>, <<>>)
    /\ stack' = SubSeq(stack, 1, Len(stack) - 1)
    /\ UNCHANGED <<func, n_call_stat_hist, instances, ops>>

\* ---- call_stats.__call__: the underlying function raised; the exception leaves __call__ ----
Fault(e) ==
    /\ stack # <<>>
    /\ LET fr == stack[Len(stack)]
           w == fr.w
       IN   /\ ended' = [ended EXCEPT ![w] = @ + 1]
            /\ lifetime' = [lifetime EXCEPT ![w] = @ + 1]
            /\ inner' = [op |-> "raised", w |-> w, args |-> fr.passed, calls |-> fr.calls,
                         result |-> e]
            /\ out' = Shown("fault", w, fr.args, e, <<>>, <<>>)
    /\ stack' = SubSeq(stack, 1, Len(stack) - 1)
    /\ UNCHANGED <<func, call_count, n_call_stat_hist, call_hist, instances, clock, ops, returned>>

\* ---- property call_stats (getter): [name, count, sum, mean, std] ----
Stats(w) ==
    <<func[w], call_count[w], np_sum(call_hist[w].items),
      np_mean(call_hist[w].items), np_std(call_hist[w].items)>>

\* a getter that drains the history it reports
ReadStats_draining(w) ==
    /\ out' = Shown("call_stats", w, 0, "none", Stats(w), <<>>)
    /\ inner' = NoInner
    /\ call_hist' = [call_hist EXCEPT ![w].items = <<>>]
    /\ UNCHANGED <<func, call_count, n_call_stat_hist, instances, stack, clock,
                   ops, returned, ended, lifetime>>

ReadStats(w) ==
    /\ out' = Shown("call_stats", w, 0, "none", Stats(w), <<>>)
    /\ inner' = NoInner
    /\ UNCHANGED <<func, call_count, n_call_stat_hist, call_hist, instances, stack, clock,
                   ops, returned, ended, lifetime>>

\* a setter that accepts the assignment
AssignStats_accepting(w, value) ==
    /\ call_count' = [call_count EXCEPT ![w] = value]
    /\ out' = Shown("set_call_stats", w, value, "none", <<>>, <<>>)
    /\ inner' = NoInner
    /\ UNCHANGED <<func, n_call_stat_hist, call_hist, instances, stack, clock,
                   ops, returned, ended, lifetime>>

\* ---- property call_stats (setter): always raises ----
AssignStats(w, value) ==
    /\ out' = Shown("set_call_stats", w, value, "AttributeError", <<>>, <<>>)
    /\ inner' = NoInner
    /\ UNCHANGED <<func, call_count, n_call_stat_hist, call_hist, instances, stack, clock,
                   ops, returned, ended, lifetime>>

\* a setter that changes the bound and keeps the recorded durations
SetHist_keeping(w, value) ==
    /\ n_call_stat_hist' = [n_call_stat_hist EXCEPT ![w] = value]
    /\ call_hist' = [call_hist EXCEPT ![w].maxlen = value]
    /\ returned' = [returned EXCEPT ![w] = <<>>]
    /\ ended' = [ended EXCEPT ![w] = 0]
    /\ ops' = ops + 1
    /\ out' = Shown("set_n_call_stat_hist", w, value, "none", <<>>, <<>>)
    /\ inner' = NoInner
    /\ UNCHANGED <<func, call_count, instances, stack, clock, lifetime>>

\* ---- property n_call_stat_hist (setter) ----
\* deque(maxlen=value) raises ValueError for a negative value, after the first assignment
SetHist(w, value) ==
    /\ n_call_stat_hist' = [n_call_stat_hist EXCEPT ![w] = value]
    /\ IF value < 0
       THEN /\ UNCHANGED <<call_hist, returned, ended>>
            /\ out' = Shown("set_n_call_stat_hist", w, value, "ValueError", <<>>, <<>>)
            /\ inner' = NoInner
       ELSE /\ call_hist' = [call_hist EXCEPT ![w] = deque(value)]
            /\ returned' = [returned EXCEPT ![w] = <<>>]
            /\ ended' = [ended EXCEPT ![w] = 0]
            /\ out' = Shown("set_n_call_stat_hist", w, value, "none", <<>>, <<>>)
            /\ inner' = NoInner
    /\ ops' = ops + 1
    /\ UNCHANGED <<func, call_count, instances, stack, clock, lifetime>>

\* a line that says "called 0 times" whenever the history is empty
StatsLine_by_history(w) ==
    LET st == Stats(w)
    IN IF call_hist[w].items = <<>>
       THEN [kind |-> "zero", deco |-> w, name |-> st[1], count |-> 0,
             tot |-> Num(0), mean |-> Num(0), std |-> Num(0)]
       ELSE [kind |-> "normal", deco |-> w, name |-> st[1], count |-> st[2],
             tot |-> st[3], mean |-> st[4], std |-> st[5]]

\* ---- print_call_stats: the line it prints ----
StatsLine(w) ==
    LET st == Stats(w)
    IN IF st[2] = 0
       THEN [kind |-> "zero", deco |-> w, name |-> st[1], count |-> 0,
             tot |-> Num(0), mean |-> Num(0), std |-> Num(0)]
       ELSE [kind |-> "normal", deco |-> w, name |-> st[1], count |-> st[2],
             tot |-> st[3], mean |-> st[4], std |-> st[5]]

PrintStats(w) ==
    /\ out' = Shown("print_call_stats", w, 0, "none", <<>>, <<StatsLine(w)>>)
    /\ inner' = NoInner
    /\ UNCHANGED <<func, call_count, n_call_stat_hist, call_hist, instances, stack, clock,
                   ops, returned, ended, lifetime>>

\* ---- print_all_call_stats ----
WarningLine ==
    [kind |-> "warning", deco |-> 0, name |-> 0, count |-> 0,
     tot |-> Num(0), mean |-> Num(0), std |-> Num(0)]

\* stats.append((deco, deco.call_stats[1])) for every item of the dict, in its order
Gathered == [i \in 1..Len(instances) |-> <<instances[i].deco, Stats(instances[i].deco)[2]>>]

\* an insertion that puts an element before its equals
SortInsert_unstable(x, s) ==
    LET k == Cardinality({i \in 1..Len(s) : s[i][2] > x[2]})
    IN SubSeq(s, 1, k) \o <<x>> \o SubSeq(s, k + 1, Len(s))

\* list.sort(key=count, reverse=True): stable, equal keys keep their order
SortInsert(x, s) ==
    LET k == Cardinality({i \in 1..Len(s) : s[i][2] >= x[2]})
    IN SubSeq(s, 1, k) \o <<x>> \o SubSeq(s, k + 1, Len(s))

RECURSIVE SortDesc(_)
SortDesc(s) ==
    IF s = <<>> THEN <<>>
    ELSE SortInsert(s[Len(s)], SortDesc(SubSeq(s, 1, Len(s) - 1)))

\* a test that compares the length of the history, which never exceeds its bound
Overflows_by_history(count, w) == Len(call_hist[w].items) > n_call_stat_hist[w]

\* a test that already fires on a full, untruncated history
Overflows_inclusive(count, w) == count >= n_call_stat_hist[w]

\* the test made on each printed wrapper: count > deco.n_call_stat_hist
Overflows(count, w) == count > n_call_stat_hist[w]

PrintAllLines ==
    LET stats == SortDesc(Gathered)
        body == [i \in 1..Len(stats) |-> StatsLine(stats[i][1])]
        overflow == \E i \in 1..Len(stats) : Overflows(stats[i][2], stats[i][1])
    IN IF overflow THEN Append(body, WarningLine) ELSE body

PrintAll ==
    /\ out' = Shown("print_all_call_stats", 0, 0, "none", <<>>, PrintAllLines)
    /\ inner' = NoInner
    /\ UNCHANGED <<func, call_count, n_call_stat_hist, call_hist, instances, stack, clock,
                   ops, returned, ended, lifetime>>

\* One thread, arbitrary wrapped functions. The argument list, the result and the
\* exception of a call are fixed here; SpecCall varies them.
Next ==
    \/ \E f \in Funcs : ops < MaxOps /\ Wrap(f) /\ UNCHANGED <<fib_frames, threads>>
    \/ \E w \in Wrappers, t1 \in Times :
          ops < MaxOps /\ Invoke(w, t1, 0) /\ UNCHANGED <<fib_frames, threads>>
    \/ \E t2 \in Times : Return(t2, 0) /\ UNCHANGED <<fib_frames, threads>>
    \/ Fault("E1") /\ UNCHANGED <<fib_frames, threads>>
    \/ \E w \in Wrappers : ReadStats(w) /\ UNCHANGED <<fib_frames, threads>>
    \/ \E w \in Wrappers, v \in AssignedValues :
          AssignStats(w, v) /\ UNCHANGED <<fib_frames, threads>>
    \/ \E w \in Wrappers, v \in Capacities :
          ops < MaxOps /\ SetHist(w, v) /\ UNCHANGED <<fib_frames, threads>>
    \/ \E w \in Wrappers : PrintStats(w) /\ UNCHANGED <<fib_frames, threads>>
    \/ PrintAll /\ UNCHANGED <<fib_frames, threads>>

Spec == Init /\ [][Next]_vars

\* Every operation, and resizes to a negative history length.
NextNeg ==
    \/ Next
    \/ \E w \in Wrappers : ops < MaxOps /\ SetHist(w, -1) /\ UNCHANGED <<fib_frames, threads>>

SpecNeg == Init /\ [][NextNeg]_vars

\* Calls only, at any depth, with every argument list, result and exception.
NextCall ==
    \/ \E f \in Funcs : ops < MaxOps /\ Wrap(f) /\ UNCHANGED <<fib_frames, threads>>
    \/ \E w \in Wrappers, t1 \in Times, a \in Args :
          ops < MaxOps /\ Invoke(w, t1, a) /\ UNCHANGED <<fib_frames, threads>>
    \/ \E t2 \in Times, r \in Results : Return(t2, r) /\ UNCHANGED <<fib_frames, threads>>
    \/ \E e \in Faults : Fault(e) /\ UNCHANGED <<fib_frames, threads>>

SpecCall == Init /\ [][NextCall]_vars

\* ---- the example: fib, wrapped, calling itself through its wrapped name ----
\* the state after "@call_stats def fib" and an assignment to fib.n_call_stat_hist
InitFib ==
    /\ func = <<1>>
    /\ call_count = <<0>>
    /\ n_call_stat_hist \in {<<c>> : c \in FibCapacities}
    /\ call_hist = <<deque(n_call_stat_hist[1])>>
    /\ instances = <<[key |-> 1, deco |-> 1]>>
    /\ stack = <<>>
    /\ fib_frames = <<>>
    /\ threads = <<>>
    /\ inner = NoInner
    /\ clock = 0
    /\ ops = 2
    /\ returned = <<<<>>>>
    /\ ended = <<0>>
    /\ lifetime = <<0>>
    /\ out = Shown("set_n_call_stat_hist", 1, n_call_stat_hist[1], "none", <<>>, <<>>)

FibFrame(n) == [n |-> n, pc |-> "start", acc |-> 0]

\* the top-level call fib(n)
FibTop(n, t1) ==
    /\ stack = <<>>
    /\ lifetime[1] = 0
    /\ Invoke(1, t1, n)
    /\ fib_frames' = <<FibFrame(n)>>
    /\ UNCHANGED threads

\* t = fib(n-1) + ...: the first recursive call, through the wrapper
FibCallFirst(t1) ==
    /\ fib_frames # <<>>
    /\ LET k == Len(fib_frames)
           fr == fib_frames[k]
       IN /\ fr.pc = "start"
          /\ fr.n > 1
          /\ Invoke(1, t1, fr.n - 1)
          /\ fib_frames' = Append([fib_frames EXCEPT ![k].pc = "first"], FibFrame(fr.n - 1))
    /\ UNCHANGED threads

\* ... + fib(n-2): the second recursive call, through the wrapper
FibCallSecond(t1) ==
    /\ fib_frames # <<>>
    /\ LET k == Len(fib_frames)
           fr == fib_frames[k]
       IN /\ fr.pc = "between"
          /\ Invoke(1, t1, fr.n - 2)
          /\ fib_frames' = Append([fib_frames EXCEPT ![k].pc = "second"], FibFrame(fr.n - 2))
    /\ UNCHANGED threads

\* return n (n <= 1) or return t: the wrapper records the call and the caller goes on
FibReturn(t2) ==
    /\ fib_frames # <<>>
    /\ LET k == Len(fib_frames)
           fr == fib_frames[k]
           r == IF fr.pc = "start" THEN fr.n ELSE fr.acc
       IN /\ (fr.pc = "start" /\ fr.n <= 1) \/ fr.pc = "end"
          /\ Return(t2, r)
          /\ fib_frames' =
                IF k = 1 THEN <<>>
                ELSE LET up == fib_frames[k - 1]
                     IN Append(SubSeq(fib_frames, 1, k - 2),
                               IF up.pc = "first"
                               THEN [up EXCEPT !.pc = "between", !.acc = r]
                               ELSE [up EXCEPT !.pc = "end", !.acc = up.acc + r])
    /\ UNCHANGED threads

NextFib ==
    \/ \E n \in 0..MaxFib, t1 \in Times : FibTop(n, t1)
    \/ \E t1 \in Times : FibCallFirst(t1)
    \/ \E t1 \in Times : FibCallSecond(t1)
    \/ \E t2 \in Times : FibReturn(t2)

SpecFib == InitFib /\ [][NextFib]_vars

\* ---- two threads in __call__ of one wrapper, without a lock ----
\* A thread switch can fall between any two bytecodes: "self._call_count += 1" loads the
\* attribute, adds, and stores it; deque.append is one call into C and is not split.
IdleThread == [pc |-> "idle", t1 |-> 0, dur |-> 0, reg |-> 0, raced |-> FALSE]

\* the state after "@call_stats def f", before the threads start
InitThreads ==
    /\ func = <<1>>
    /\ call_count = <<0>>
    /\ n_call_stat_hist = <<DefaultHist>>
    /\ call_hist = <<deque(DefaultHist)>>
    /\ instances = <<[key |-> 1, deco |-> 1]>>
    /\ stack = <<>>
    /\ fib_frames = <<>>
    /\ threads = [t \in Threads |-> IdleThread]
    /\ inner = NoInner
    /\ clock = 0
    /\ ops = 1
    /\ returned = <<<<>>>>
    /\ ended = <<0>>
    /\ lifetime = <<0>>
    /\ out = Shown("wrap", 1, 1, "none", <<>>, <<>>)

\* t1 = time(); self._func(...) starts
T_Call(t, t1) ==
    /\ threads[t].pc = "idle"
    /\ t1 >= clock
    /\ clock' = t1
    /\ threads' = [threads EXCEPT ![t].pc = "in_func", ![t].t1 = t1]
    /\ ops' = ops + 1
    /\ out' = Shown("call", 1, t, "none", <<>>, <<>>)
    /\ UNCHANGED <<func, call_count, n_call_stat_hist, call_hist, instances, stack, fib_frames,
                   inner, returned, ended, lifetime>>

\* self._func returned; t2 = time()
T_Time(t, t2) ==
    /\ threads[t].pc = "in_func"
    /\ t2 >= clock
    /\ clock' = t2
    /\ threads' = [threads EXCEPT ![t].pc = "append", ![t].dur = t2 - threads[t].t1]
    /\ UNCHANGED <<func, call_count, n_call_stat_hist, call_hist, instances, stack, fib_frames,
                   inner, ops, returned, ended, lifetime, out>>

\* self._call_hist.append(t2-t1)
T_Append(t) ==
    /\ threads[t].pc = "append"
    /\ call_hist' = [call_hist EXCEPT ![1] = deque_append(@, threads[t].dur)]
    /\ returned' = [returned EXCEPT ![1] = Append(@, threads[t].dur)]
    /\ threads' = [threads EXCEPT ![t].pc = "load"]
    /\ UNCHANGED <<func, call_count, n_call_stat_hist, instances, stack, fib_frames,
                   inner, clock, ops, ended, lifetime, out>>

\* self._call_count += 1, first half: load the attribute
T_Load(t) ==
    /\ threads[t].pc = "load"
    /\ threads' = [threads EXCEPT ![t].pc = "store",
                                  ![t].reg = call_count[1],
                                  ![t].raced = \E u \in Threads \ {t} : threads[u].pc = "store"]
    /\ UNCHANGED <<func, call_count, n_call_stat_hist, call_hist, instances, stack, fib_frames,
                   inner, clock, ops, returned, ended, lifetime, out>>

\* an increment made on the current value of the attribute, as under a lock
T_Store_locked(t) ==
    /\ threads[t].pc = "store"
    /\ call_count' = [call_count EXCEPT ![1] = @ + 1]
    /\ threads' = [threads EXCEPT ![t].pc = "done"]
    /\ ended' = [ended EXCEPT ![1] = @ + 1]
    /\ lifetime' = [lifetime EXCEPT ![1] = @ + 1]
    /\ out' = Shown("return", 1, t, "none", <<>>, <<>>)
    /\ UNCHANGED <<func, n_call_stat_hist, call_hist, instances, stack, fib_frames,
                   inner, clock, ops, returned>>

\* self._call_count += 1, second half: store the loaded value plus one; return resp
T_Store(t) ==
    /\ threads[t].pc = "store"
    /\ call_count' = [call_count EXCEPT ![1] = threads[t].reg + 1]
    /\ threads' = [threads EXCEPT ![t].pc = "done"]
    /\ ended' = [ended EXCEPT ![1] = @ + 1]
    /\ lifetime' = [lifetime EXCEPT ![1] = @ + 1]
    /\ out' = Shown("return", 1, t, "none", <<>>, <<>>)
    /\ UNCHANGED <<func, n_call_stat_hist, call_hist, instances, stack, fib_frames,
                   inner, clock, ops, returned>>

NextThreads ==
    \/ \E t \in Threads, t1 \in Times : T_Call(t, t1)
    \/ \E t \in Threads, t2 \in Times : T_Time(t, t2)
    \/ \E t \in Threads : T_Append(t)
    \/ \E t \in Threads : T_Load(t)
    \/ \E t \in Threads : T_Store(t)

SpecThreads == InitThreads /\ [][NextThreads]_vars

(***************************************************************************)
(* Properties                                                              *)
(***************************************************************************)
Min(a, b) == IF a <= b THEN a ELSE b

Items(w) == call_hist[w].items

IsSuffix(s, t) == Len(s) <= Len(t) /\ s = SubSeq(t, Len(t) - Len(s) + 1, Len(t))

\* the statistics lines of a printed report, without the warning line
RECURSIVE Body(_)
Body(lines) ==
    IF lines = <<>> THEN <<>>
    ELSE IF lines[1].kind = "warning" THEN Body(Tail(lines))
         ELSE <<lines[1]>> \o Body(Tail(lines))

KeyPos(w) == CHOOSE i \in 1..Len(instances) : instances[i].deco = w

\* C1: for every wrapper, callCount equals the number of its invocations that have
\* finished so far (returned or raised).
C1_CountEqualsFinished == \A w \in Wrappers : call_count[w] = lifetime[w]

\* C2: when the underlying callable raises, the call is still counted and timed: the
\* step in which the fault leaves the wrapper adds one to callCount and appends the
\* call's duration to history.
C2_FaultCountedAndTimed ==
    [][out'.op = "fault" =>
         LET w == out'.w
         IN /\ call_count'[w] = call_count[w] + 1
            /\ \E d \in Times : call_hist'[w] = deque_append(call_hist[w], d)]_vars

\* C3: after k invocations of a wrapper have completed since its construction or its
\* last resize, history is the durations of the most recent min(k, historyCapacity) of
\* them in completion order, its total is their sum, and Stats().count is callCount.
C3_HistoryIsRecentWindow ==
    \A w \in Wrappers :
        LET k == ended[w]
            m == Min(k, n_call_stat_hist[w])
        IN /\ Len(Items(w)) = m
           /\ IsSuffix(Items(w), returned[w])
           /\ Stats(w)[3] = Num(SeqSum(Items(w)))
           /\ Stats(w)[2] = call_count[w]

\* C4: in every reachable state, for every wrapper, len(history) <= historyCapacity.
C4_HistoryBounded == \A w \in Wrappers : Len(Items(w)) <= n_call_stat_hist[w]

\* a wrapper whose history is full, after a resize to a small bound and an eviction
C4_Witness ==
    \E w \in Wrappers :
        /\ n_call_stat_hist[w] \in Capacities \ {0}
        /\ Len(Items(w)) = n_call_stat_hist[w]
        /\ Len(returned[w]) > n_call_stat_hist[w]

\* C5: between operations callCount >= len(history) for every wrapper, and the two stop
\* being equal only when more calls have occurred than the capacity allows or when a
\* resize empties a non-empty history.
C5_CountCoversHistory ==
    /\ [](\A w \in Wrappers : call_count[w] >= Len(Items(w)))
    /\ [][\A w \in Wrappers :
            (call_count[w] = Len(Items(w)) /\ call_count'[w] # Len(call_hist'[w].items))
            => \/ call_count'[w] > n_call_stat_hist'[w]
               \/ /\ out'.op = "set_n_call_stat_hist"
                  /\ out'.w = w
                  /\ Items(w) # <<>>]_vars

\* a wrapper whose count and history length differ only because a resize emptied it
C5_Witness ==
    \E w \in Wrappers :
        /\ call_count[w] > Len(Items(w))
        /\ call_count[w] <= n_call_stat_hist[w]

\* C6: SetHistoryCapacity(m) leaves the wrapper with historyCapacity = m and an empty
\* history, leaves callCount, every other wrapper and the registry unchanged, and the
\* history afterwards holds only durations of invocations completed after the resize.
C6_ResizeResets ==
    /\ [](\A w \in Wrappers : IsSuffix(Items(w), returned[w]))
    /\ [][out'.op = "set_n_call_stat_hist" =>
            LET w == out'.w
            IN /\ n_call_stat_hist'[w] = out'.arg
               /\ call_hist'[w].items = <<>>
               /\ call_count' = call_count
               /\ \A v \in Wrappers \ {w} :
                     n_call_stat_hist'[v] = n_call_stat_hist[v] /\ call_hist'[v] = call_hist[v]
               /\ instances' = instances
               /\ func' = func]_vars

\* a resize just made on a wrapper that had been invoked, beside another wrapper
C6_Witness ==
    /\ out.op = "set_n_call_stat_hist"
    /\ call_count[out.w] > 0
    /\ Len(func) >= 2
    /\ \E v \in Wrappers \ {out.w} : Items(v) # <<>>

\* C7: an assignment to the statistics property fails with the read-only error (Python's
\* AttributeError) and leaves callCount, history and historyCapacity unchanged.
C7_StatsReadOnly ==
    [][out'.op = "set_call_stats" =>
         /\ out'.error = "AttributeError"
         /\ call_count' = call_count
         /\ call_hist' = call_hist
         /\ n_call_stat_hist' = n_call_stat_hist]_vars

\* an assignment just refused on a wrapper that has been invoked
C7_Witness ==
    /\ out.op = "set_call_stats"
    /\ out.error = "AttributeError"
    /\ call_count[out.w] > 0

\* C8: whenever history is empty, Stats() does not fault and returns
\* total = mean = stdDev = 0.
C8_EmptyStatsAreZero ==
    (out.op = "call_stats" /\ Items(out.w) = <<>>) =>
        /\ out.error = "none"
        /\ IsZero(out.value[3])
        /\ IsZero(out.value[4])
        /\ IsZero(out.value[5])

\* what C9 says of every report, up to the order of equal counts
OneLinePerWrapperDescending(body) ==
    /\ Len(body) = Len(instances)
    /\ Len(instances) = Cardinality(Registered)
    /\ {body[i].deco : i \in 1..Len(body)} = Registered
    /\ \A i \in 1..Len(body) : body[i].count = call_count[body[i].deco]
    /\ \A i, j \in 1..Len(body) : i < j => body[i].count >= body[j].count

\* C9 (as stated): PrintAll() prints one statistics line per registered wrapper, in
\* order of descending callCount, wrappers with equal callCount in the order in which
\* they were registered (constructed).
C9_TiesInRegistrationOrder ==
    out.op = "print_all_call_stats" =>
        LET body == Body(out.lines)
        IN /\ OneLinePerWrapperDescending(body)
           /\ \A i, j \in 1..Len(body) :
                 (i < j /\ body[i].count = body[j].count) => body[i].deco < body[j].deco

\* C9 (amended): PrintAll() prints one statistics line per registered wrapper, in order
\* of descending callCount, wrappers with equal callCount in the order of their keys in
\* the registry (the order in which their underlying callables were first wrapped).
C9_TiesInRegistryOrder ==
    out.op = "print_all_call_stats" =>
        LET body == Body(out.lines)
        IN /\ OneLinePerWrapperDescending(body)
           /\ \A i, j \in 1..Len(body) :
                 (i < j /\ body[i].count = body[j].count)
                 => KeyPos(body[i].deco) < KeyPos(body[j].deco)

\* a report of two wrappers with equal non-zero counts, the first of which replaced an
\* earlier wrapper of the same callable
C9_Witness ==
    /\ out.op = "print_all_call_stats"
    /\ Len(instances) = 2
    /\ instances[1].deco > instances[2].deco
    /\ call_count[instances[1].deco] = call_count[instances[2].deco]
    /\ call_count[instances[1].deco] > 0

\* C10: PrintAll() emits the truncation warning iff some registered wrapper has
\* callCount > historyCapacity, and the warning comes after every statistics line.
C10_WarningIffTruncated ==
    out.op = "print_all_call_stats" =>
        /\ (\E i \in 1..Len(out.lines) : out.lines[i].kind = "warning")
           <=> (\E w \in Registered : call_count[w] > n_call_stat_hist[w])
        /\ \A i \in 1..Len(out.lines) : out.lines[i].kind = "warning" => i = Len(out.lines)

\* a report with two statistics lines followed by the warning
C10_Witness ==
    /\ out.op = "print_all_call_stats"
    /\ Len(out.lines) = 3
    /\ out.lines[3].kind = "warning"
    /\ \E w \in Registered : call_count[w] <= n_call_stat_hist[w] /\ call_count[w] > 0

\* C11: Invoke is transparent: the wrapper calls the underlying callable exactly once
\* with the caller's arguments, and hands the caller exactly the value it returned or
\* exactly the fault it raised.
C11_Transparent ==
    /\ \A i \in 1..Len(stack) : stack[i].passed = stack[i].args /\ stack[i].calls = 1
    /\ out.op = "return" =>
          /\ inner.op = "returned"
          /\ inner.w = out.w
          /\ inner.args = out.arg
          /\ inner.calls = 1
          /\ out.value = <<inner.result>>
          /\ out.error = "none"
    /\ out.op = "fault" =>
          /\ inner.op = "raised"
          /\ inner.w = out.w
          /\ inner.args = out.arg
          /\ inner.calls = 1
          /\ out.error = inner.result
          /\ out.value = <<>>

\* a fault of a nested call with a non-trivial argument has just reached the caller
C11_Witness ==
    /\ out.op = "fault"
    /\ out.error = "E2"
    /\ out.arg = 1
    /\ stack # <<>>

\* number of nodes of the recursion tree of the naive fib(n)
RECURSIVE Nodes(_)
Nodes(n) == IF n <= 1 THEN 1 ELSE 1 + Nodes(n - 1) + Nodes(n - 2)

\* the value of fib(n)
RECURSIVE FibValue(_)
FibValue(n) == IF n <= 1 THEN n ELSE FibValue(n - 1) + FibValue(n - 2)

\* C12: after one top-level call of the wrapped fib(n), callCount is the number of nodes
\* of the naive recursion tree (177 for fib(10)), every recursive invocation having been
\* counted, and each has left one duration in history, up to its capacity.
C12_EveryRecursiveCallCounted ==
    (stack = <<>> /\ out.op = "return") =>
        /\ call_count[1] = Nodes(out.arg)
        /\ out.arg = 10 => call_count[1] = 177
        /\ Len(Items(1)) = Min(Nodes(out.arg), n_call_stat_hist[1])
        /\ out.value = <<FibValue(out.arg)>>

\* fib(10) has returned 55 to its top-level caller after 177 counted calls, more than the
\* short history holds
C12_Witness ==
    /\ stack = <<>>
    /\ out.op = "return"
    /\ out.arg = 10
    /\ out.value = <<55>>
    /\ call_count[1] = 177
    /\ Len(Items(1)) = 100

\* the wrappers of a callable, the first and the latest of them
WrappersOf(f) == {w \in Wrappers : func[w] = f}

FirstWrap(f) == CHOOSE w \in WrappersOf(f) : \A v \in WrappersOf(f) : w <= v

LatestWrap(f) == CHOOSE w \in WrappersOf(f) : \A v \in WrappersOf(f) : w >= v

Reported(lines) == {lines[i].deco : i \in {j \in 1..Len(lines) : lines[j].kind # "warning"}}

\* C13 (as stated): a wrapper, once registered at construction, is in the Registry and
\* reported by PrintAll() in every later state, also after the same callable is wrapped
\* again.
C13_EveryWrapperStaysRegistered ==
    /\ Wrappers \subseteq Registered
    /\ out.op = "print_all_call_stats" => Wrappers \subseteq Reported(out.lines)

\* C13 (amended): the Registry keeps one entry per wrapped callable, never removes it and
\* never moves it; the entry holds the latest wrapper of that callable, and PrintAll()
\* reports exactly these wrappers.
C13_EveryCallableStaysRegistered ==
    /\ {instances[i].key : i \in 1..Len(instances)} = {func[w] : w \in Wrappers}
    /\ \A i \in 1..Len(instances) : instances[i].deco = LatestWrap(instances[i].key)
    /\ \A i, j \in 1..Len(instances) :
          i < j => FirstWrap(instances[i].key) < FirstWrap(instances[j].key)
    /\ out.op = "print_all_call_stats" =>
          Reported(out.lines) = {LatestWrap(func[w]) : w \in Wrappers}

\* a report made after a callable whose first wrapper had been invoked was wrapped again
C13_Witness ==
    /\ out.op = "print_all_call_stats"
    /\ Len(func) = 3
    /\ Len(instances) = 2
    /\ instances[1].deco = 3
    /\ call_count[1] > 0

\* C14: wrapping a callable yields a wrapper with callCount 0, empty history and
\* historyCapacity 1000, registered under the callable; it does not invoke the callable
\* and changes no count, history or capacity of an existing wrapper.
C14_FreshWrapper ==
    [][out'.op = "wrap" =>
         LET w == out'.w
             f == out'.arg
         IN /\ w = Len(func) + 1
            /\ func'[w] = f
            /\ call_count'[w] = 0
            /\ call_hist'[w].items = <<>>
            /\ n_call_stat_hist'[w] = 1000
            /\ \E i \in 1..Len(instances') : instances'[i] = [key |-> f, deco |-> w]
            /\ stack' = stack
            /\ inner'.op = "none"
            /\ \A v \in Wrappers :
                  /\ call_count'[v] = call_count[v]
                  /\ call_hist'[v] = call_hist[v]
                  /\ n_call_stat_hist'[v] = n_call_stat_hist[v]]_vars

\* a wrapper just constructed beside one that has a call recorded
C14_Witness ==
    /\ out.op = "wrap"
    /\ out.w >= 2
    /\ call_count[out.w] = 0
    /\ Items(1) # <<>>

Observers == {"call_stats", "print_call_stats", "print_all_call_stats"}

\* C16: Stats(), PrintStats() and PrintAll() change no wrapper and not the Registry, so
\* the snapshot a Stats() read showed is what the next read shows.
C16_ObserversArePure ==
    /\ [](out.op = "call_stats" => out.value = Stats(out.w))
    /\ [][out'.op \in Observers =>
            UNCHANGED <<func, call_count, n_call_stat_hist, call_hist, instances, stack,
                        clock>>]_vars

\* a snapshot just read from a wrapper with a recorded call
C16_Witness ==
    /\ out.op = "call_stats"
    /\ out.value[2] > 0
    /\ Items(out.w) # <<>>

NoWarning(lines) == \A i \in 1..Len(lines) : lines[i].kind # "warning"

\* C18 (as stated): whenever PrintAll() emits no truncation warning, every registered
\* wrapper has len(history) = callCount, after any calls and resizes.
C18_NoWarningMeansWholeLifetime ==
    (out.op = "print_all_call_stats" /\ NoWarning(out.lines)) =>
        \A w \in Registered : Len(Items(w)) = call_count[w]

\* C18 (amended): whenever PrintAll() emits no truncation warning, every registered
\* wrapper that was not resized after one of its invocations ended has
\* len(history) = callCount.
C18_NoWarningMeansWholeLifetimeUnlessResized ==
    (out.op = "print_all_call_stats" /\ NoWarning(out.lines)) =>
        \A w \in Registered : lifetime[w] = ended[w] => Len(Items(w)) = call_count[w]

\* a report without warning of a wrapper whose history of length 1 is exactly full
C18_Witness ==
    /\ out.op = "print_all_call_stats"
    /\ NoWarning(out.lines)
    /\ \E w \in Registered :
          /\ n_call_stat_hist[w] = 1
          /\ lifetime[w] = ended[w]
          /\ call_count[w] = 1
          /\ Len(Items(w)) = 1

\* C19: a SetHistoryCapacity that raises (negative value) leaves historyCapacity and
\* history as they were, so len(history) <= historyCapacity holds afterwards.
C19_ResizeAllOrNothing ==
    [][out'.error = "ValueError" =>
         /\ n_call_stat_hist' = n_call_stat_hist
         /\ call_hist' = call_hist
         /\ Len(call_hist'[out'.w].items) <= n_call_stat_hist'[out'.w]]_vars

AllDone == \A t \in Threads : threads[t].pc = "done"

\* C17: without a lock around the counter increment, two threads that invoke the same
\* wrapper can lose an update: when both invocations have completed, callCount is 2 only
\* if the two increments did not overlap, and 1 if they did; both durations are in history.
C17_LostUpdateWhenIncrementsOverlap ==
    AllDone =>
        /\ lifetime[1] = 2
        /\ Len(Items(1)) = 2
        /\ call_count[1] = IF \E t \in Threads : threads[t].raced THEN 1 ELSE 2

\* both invocations have completed and callCount has grown by 1 only
C17_Witness ==
    /\ AllDone
    /\ lifetime[1] = 2
    /\ call_count[1] = 1

====
